---- MODULE Spec2Model ----
(***************************************************************************)
(* Model of the MCP widget server framework (server/src/framework):        *)
(*   - McpWidgetServer: constructor, createMcpServer (the per-session      *)
(*     request router), handleSseRequest, handlePostMessage, start (the    *)
(*     HTTP entry point with the static asset route);                      *)
(*   - utils: zodToJsonSchema (the schema translator), generateWidgetMeta  *)
(*     and generateWidgetHtml.                                             *)
(* The MCP SDK (Server, SSEServerTransport) and zod are libraries outside  *)
(* the repository; they appear only through the calls the framework makes  *)
(* on them (connect, close, handlePostMessage, parse) and the callbacks    *)
(* they fire (onclose, onerror), each with every outcome it can have.      *)
(***************************************************************************)
EXTENDS Integers, Sequences, FiniteSets, TLC

VARIABLES
    config,        \* ServerConfig.widgets: the widget definition list
    phase,         \* "new" | "constructed" | "failed" | "listening"
    sessions,      \* keys of McpWidgetServer.sessions (Map<string, SessionRecord>)
    sess,          \* per session id: handshake, transport and router status
    nextId,        \* number of transports created so far (transport.sessionId is fresh)
    pending,       \* call-tool requests suspended at `await widget.handler(args)`
    handlerCalls,  \* times a widget handler was invoked (the spy's call count)
    lastEvent,     \* the step just taken and what it answered
    tIn,           \* schema translator: the schema given to zodToJsonSchema
    tOut,          \* schema translator: the description it returned
    aReq,          \* asset gateway: the request (method, raw URL path)
    aResp          \* asset gateway: the response

vars == <<config, phase, sessions, sess, nextId, pending, handlerCalls,
          lastEvent, tIn, tOut, aReq, aResp>>

serverVars == <<config, phase, sessions, sess, nextId, pending, handlerCalls,
                lastEvent>>
translatorVars == <<tIn, tOut>>
assetVars == <<aReq, aResp>>

-----------------------------------------------------------------------------
(* Bounds *)

\* longest widget definition list
MaxWidgets == 2
\* GET requests on the streaming path (one transport, one session id each)
MaxSessions == 2
\* handler invocations over a run
MaxCalls == 1
\* call-tool requests suspended on their handler at the same time
MaxPending == 1
\* fields of an object schema given to the schema translator
MaxFields == 3
\* wrapper layers (optional, nullable, default, effects) in one schema
MaxLayers == 2
\* path atoms after "/assets" in the URL of an asset request
MaxAtoms == 3

\* The response before anything was written.
NoResponse == [status |-> 0, body |-> "none", file |-> <<>>, contentType |-> ""]

-----------------------------------------------------------------------------
(* Widget definitions (types.ts WidgetDefinition).  `schema` and `handler`  *)
(* are required by the type but nothing stops a JavaScript caller, or a     *)
(* cast, from leaving them undefined.                                       *)

Components == {"a", "b"}

\* "NeedsX" stands for z.object({x: z.string()}), "AllOptional" for
\* z.object({x: z.string().optional()}), "Missing" for undefined.
SchemaKinds == {"NeedsX", "AllOptional", "Missing"}

\* title: the display name; here each component has its own.
TitleOf(component) == IF component = "a" THEN "Alpha" ELSE "Beta"

\* The optional fields annotations, csp and widgetDomain: "undefined" when
\* the definition leaves the field out, else the value it gives.
AnnotationValues == {"undefined", "readOnlyHint"}
CspValues == {"undefined", "connect_domains"}
WidgetDomainValues == {"undefined", "https://widgets.example"}

\* The optional fields htmlSrc, cssSrc and rootElement, each a text written
\* as a sequence of pieces: <<>> when the definition leaves the field out,
\* <<"">> for the empty string.
HtmlSrcValues == {<<>>, <<"https://cdn.example/w.js">>}
CssSrcValues == {<<>>, <<"">>, <<"https://cdn.example/w.css">>}
RootElementValues == {<<>>, <<"app">>}

\* The fields the framework reads.  description and meta are optional and
\* left out of every definition here.
WidgetDefinition ==
    [component : Components, title : {"Alpha", "Beta"}, schema : SchemaKinds,
     handler : BOOLEAN, annotations : AnnotationValues, csp : CspValues,
     widgetDomain : WidgetDomainValues, htmlSrc : HtmlSrcValues,
     cssSrc : CssSrcValues, rootElement : RootElementValues]

\* Definitions that set none of the optional fields.
PlainDefinitions ==
    {w \in WidgetDefinition :
        /\ w.title = TitleOf(w.component)
        /\ w.schema \in {"NeedsX", "Missing"}
        /\ w.htmlSrc = <<>> /\ w.cssSrc = <<>> /\ w.rootElement = <<>>
        /\ w.annotations = "undefined"
        /\ w.csp = "undefined"
        /\ w.widgetDomain = "undefined"}

\* Complete definitions (schema and handler present) named "a" with every
\* combination of the optional fields.
HintedDefinitions ==
    {w \in WidgetDefinition :
        /\ w.component = "a"
        /\ w.title = TitleOf(w.component)
        /\ w.schema = "NeedsX"
        /\ w.handler
        /\ w.htmlSrc = <<>> /\ w.cssSrc = <<>> /\ w.rootElement = <<>>}

\* Complete definitions that set none of annotations, csp and widgetDomain,
\* with every combination of htmlSrc, cssSrc and rootElement.
SourcedDefinitions ==
    {w \in WidgetDefinition :
        /\ w.title = TitleOf(w.component)
        /\ w.schema = "NeedsX"
        /\ w.handler
        /\ w.annotations = "undefined"
        /\ w.csp = "undefined"
        /\ w.widgetDomain = "undefined"}

\* The definition lists the metadata compiler is run on by itself.
CompilerConfigs ==
    UNION {[1..n -> SourcedDefinitions] : n \in 1..MaxWidgets}

\* Two complete definitions with the same component and different titles.
ShadowingConfigs ==
    {<<w, [w EXCEPT !.title = "Beta"]>> :
        w \in {v \in PlainDefinitions :
                  v.component = "a" /\ v.schema = "NeedsX" /\ v.handler}}

\* One complete definition whose schema accepts the empty object.
LenientConfigs ==
    {<<[w EXCEPT !.schema = "AllOptional"]>> :
        w \in {v \in PlainDefinitions :
                  v.component = "a" /\ v.schema = "NeedsX" /\ v.handler}}

\* The definition lists the server is built from: every list of plain
\* definitions, every single definition with optional fields, a list in
\* which the second definition repeats the component of the first under
\* another title, and a definition with a lenient schema.  Component names are only ever compared with each other
\* and with the name of a call-tool request, so the first definition is
\* given the name "a".
Configs ==
    {widgets \in UNION {[1..n -> PlainDefinitions] : n \in 1..MaxWidgets} :
        widgets[1].component = "a"}
    \cup {<<w>> : w \in HintedDefinitions}
    \cup ShadowingConfigs
    \cup LenientConfigs

\* Tool names a client may send: every component and one that is none.
ToolNames == Components \cup {"unknown-widget"}

\* request.params.arguments of a call-tool request.
Arguments == {"Absent", "Empty", "XString", "XNumber"}


-----------------------------------------------------------------------------
(* Schema translator: zodToJsonSchema (utils.ts)                            *)
(* A schema is seen through `_def`: its typeName and, for an object, the    *)
(* shape.  A field is the chain of `_def`s met from the outside in: wrapper *)
(* layers, then the first `_def` that is not a wrapper the loop knows, or   *)
(* "undefined" when innerType / schema of the last wrapper (or `_def` of    *)
(* the field itself) is missing.  Descriptions are left out.                *)

Wrappers == {"ZodOptional", "ZodNullable", "ZodDefault", "ZodEffects"}

BaseTypes == {"ZodString", "ZodNumber", "ZodBoolean", "ZodArray", "ZodObject",
              "ZodEnum", "undefined"}

FieldKeys == <<"a", "b", "c", "d", "e">>

\* Inputs of zodToJsonSchema before any field is added: the empty object
\* schema, schemas of another type, and `undefined` (typeName "undefined":
\* there is no `_def` to read).
Schemas ==
    {[typeName |-> t, shape |-> <<>>] :
         t \in {"ZodObject", "ZodString", "ZodArray", "undefined"}}

RECURSIVE LayersUsed(_)
LayersUsed(shape) ==
    IF shape = <<>> THEN 0 ELSE Len(Head(shape).wrappers) + LayersUsed(Tail(shape))

RECURSIVE Unwrap(_, _, _)
\* The while loop over the layers of one field: ZodOptional and ZodNullable
\* set isOptional and go to innerType, ZodEffects goes to schema, ZodDefault
\* goes to innerType; anything else ends the loop.
Unwrap(wrappers, base, isOptional) ==
    IF wrappers = <<>>
    THEN [fieldDef |-> base, isOptional |-> isOptional]
    ELSE IF Head(wrappers) \in {"ZodOptional", "ZodNullable"}
    THEN Unwrap(Tail(wrappers), base, TRUE)
    ELSE Unwrap(Tail(wrappers), base, isOptional)

\* "Map basic types": string unless the typeName is one of the five known.
CoarseType(typeName) ==
    CASE typeName = "ZodString"  -> "string"
      [] typeName = "ZodNumber"  -> "number"
      [] typeName = "ZodBoolean" -> "boolean"
      [] typeName = "ZodArray"   -> "array"
      [] typeName = "ZodObject"  -> "object"
      [] OTHER                   -> "string"

RECURSIVE TranslateShape(_, _, _)
\* The for loop over Object.entries(shape): a field whose chain ends in no
\* `_def` is skipped (`if (!fieldDef) continue`); the others get a property
\* and, when isOptional is false, a place in `required`.
TranslateShape(shape, properties, required) ==
    IF shape = <<>>
    THEN [properties |-> properties, required |-> required]
    ELSE LET f == Head(shape)
             u == Unwrap(f.wrappers, f.base, FALSE)
         IN  IF u.fieldDef = "undefined"
             THEN TranslateShape(Tail(shape), properties, required)
             ELSE TranslateShape(
                     Tail(shape),
                     Append(properties, [key |-> f.key, type |-> CoarseType(u.fieldDef)]),
                     IF u.isOptional THEN required ELSE Append(required, f.key))

\* "Default to object type": the description returned for any other schema.
Fallback ==
    [type |-> "object", properties |-> <<>>, additionalProperties |-> TRUE]

zodToJsonSchema(schema) ==
    IF schema.typeName = "undefined"
    THEN [type |-> "threw"]
    ELSE IF schema.typeName = "ZodObject"
    THEN LET r == TranslateShape(schema.shape, <<>>, <<>>)
         IN  [type |-> "object", properties |-> r.properties,
              required |-> r.required, additionalProperties |-> FALSE]
    ELSE Fallback

-----------------------------------------------------------------------------
(* Static asset gateway: the /assets/ branch of the request listener        *)
(* The request URL is "/assets" followed by `rest`, a sequence of atoms each *)
(* preceded by a separator: a literal "/" or the escape "%2f".  Paths, once  *)
(* resolved, are sequences of names from the root.                           *)

\* "%" is an escape that is not followed by two hex digits.
Atoms == {"..", "%2e%2e", "", "a.js", "secret", "passwd", "assets", "%"}

Separators == {"/", "%2f"}

\* resolve(import.meta.dirname, "../../../assets")
assetsDir == <<"app", "assets">>

\* The file system the gateway reads: under the asset directory a script,
\* a file without extension and a directory; outside it two other files.
Directories == {<<>>, <<"app">>, <<"app", "assets">>, <<"app", "assets", "assets">>}
Files == {<<"app", "assets", "a.js">>, <<"app", "assets", "passwd">>,
          <<"app", "secret">>, <<"passwd">>}

existsSync(path) == path \in Directories \cup Files

RECURSIVE RawSegments(_, _)
\* The URL path split at its literal slashes: each segment is the sequence
\* of atoms that "%2f" escapes hold together.
RawSegments(rest, segs) ==
    IF rest = <<>> THEN segs
    ELSE IF Head(rest).sep = "/"
    THEN RawSegments(Tail(rest), Append(segs, <<Head(rest).atom>>))
    ELSE RawSegments(Tail(rest),
                     [segs EXCEPT ![Len(segs)] = Append(@, Head(rest).atom)])

\* A double-dot path segment for the URL parser: ".." or its escaped form,
\* alone between two slashes.
IsDoubleDot(seg) == seg \in {<<"..">>, <<"%2e%2e">>}

RECURSIVE UrlPath(_, _)
\* new URL(req.url, base).pathname: the URL parser removes a double-dot
\* segment together with the segment before it, and leaves an empty last
\* segment when the double-dot segment was the last one.
UrlPath(segs, path) ==
    IF segs = <<>> THEN path
    ELSE IF IsDoubleDot(Head(segs))
    THEN LET shortened == IF path = <<>> THEN path
                          ELSE SubSeq(path, 1, Len(path) - 1)
         IN  IF Len(segs) = 1 THEN Append(shortened, <<"">>)
             ELSE UrlPath(Tail(segs), shortened)
    ELSE UrlPath(Tail(segs), Append(path, Head(segs)))

pathname(req) == UrlPath(RawSegments(req.rest, <<<<"assets">>>>), <<>>)

\* url.pathname.startsWith("/assets/")
IsAssetPath(path) == Len(path) >= 2 /\ path[1] = <<"assets">>

RECURSIVE Flatten(_)
Flatten(segs) == IF segs = <<>> THEN <<>> ELSE Head(segs) \o Flatten(Tail(segs))

\* decodeURIComponent throws a URIError on a malformed escape.
DecodeThrows(atoms) == \E i \in DOMAIN atoms : atoms[i] = "%"

\* decodeURIComponent(url.pathname.slice("/assets/".length)), as the names
\* between the slashes of the decoded string: "%2f" has become a slash and
\* "%2e%2e" two dots.
relativePath(path) ==
    LET atoms == Flatten(SubSeq(path, 2, Len(path)))
    IN  [i \in DOMAIN atoms |-> IF atoms[i] = "%2e%2e" THEN ".." ELSE atoms[i]]

RECURSIVE Normalize(_, _)
Normalize(names, acc) ==
    IF names = <<>> THEN acc
    ELSE IF Head(names) = ""
    THEN Normalize(Tail(names), acc)
    ELSE IF Head(names) = ".."
    THEN Normalize(Tail(names),
                   IF acc = <<>> THEN acc ELSE SubSeq(acc, 1, Len(acc) - 1))
    ELSE Normalize(Tail(names), Append(acc, Head(names)))

\* path.resolve(dir, rel): a relative path that begins with a slash (its
\* first name is empty and another follows) is absolute and replaces dir;
\* the result is normalised.
resolve(dir, rel) ==
    IF Len(rel) >= 2 /\ rel[1] = ""
    THEN Normalize(rel, <<>>)
    ELSE Normalize(rel, dir)

\* Contained with the containment test left out.
Contained_unchecked(filePath) == TRUE

\* filePath.startsWith(`${assetsDir}${sep}`) || filePath === assetsDir
Contained(filePath) ==
    \/ /\ Len(filePath) > Len(assetsDir)
       /\ SubSeq(filePath, 1, Len(assetsDir)) = assetsDir
    \/ filePath = assetsDir

extname(name) == IF name = "a.js" THEN ".js" ELSE ""

\* mimeTypes with every file served as a script.
mimeTypes_allScripts(ext) == "application/javascript"

\* mimeTypes[ext] ?? "application/octet-stream"
mimeTypes(ext) ==
    CASE ext = ".js"   -> "application/javascript"
      [] ext = ".css"  -> "text/css"
      [] ext = ".html" -> "text/html"
      [] ext = ".json" -> "application/json"
      [] ext = ".map"  -> "application/json"
      [] ext = ".png"  -> "image/png"
      [] ext = ".jpg"  -> "image/jpeg"
      [] ext = ".jpeg" -> "image/jpeg"
      [] ext = ".svg"  -> "image/svg+xml"
      [] ext = ".webp" -> "image/webp"
      [] OTHER         -> "application/octet-stream"

Answer(status, body) ==
    [status |-> status, body |-> body, file |-> <<>>, contentType |-> ""]

\* The request escaped the listener as an unhandled rejection: no answer.
Threw == Answer(-1, "none")

\* The request listener for GET or OPTIONS "/assets" + rest.  statThrows:
\* statSync fails although existsSync saw the path.
AssetResponse(req, statThrows) ==
    LET path == pathname(req) IN
    IF ~IsAssetPath(path) THEN Answer(404, "Not Found")
    ELSE IF DecodeThrows(Flatten(SubSeq(path, 2, Len(path)))) THEN Threw
    ELSE LET rel == relativePath(path)
             filePath == resolve(assetsDir, rel)
         IN  IF rel = <<"">> THEN Answer(404, "Not Found")
             ELSE IF ~Contained(filePath) \/ ~existsSync(filePath)
             THEN Answer(404, "Not Found")
             ELSE IF req.method = "OPTIONS" THEN Answer(204, "none")
             ELSE IF statThrows THEN Answer(500, "Failed to read asset")
             ELSE IF filePath \in Directories THEN Answer(404, "Not Found")
             ELSE [status |-> 200, body |-> "file", file |-> filePath,
                   contentType |-> mimeTypes(extname(filePath[Len(filePath)]))]

-----------------------------------------------------------------------------
(* McpWidgetServer.constructor and start *)

\* zodToJsonSchema reads `schema._def` first: an undefined schema makes it
\* throw a TypeError, a zod object schema makes it return.
TranslatorThrows(schema) == schema = "Missing"

\* The constructor maps the definitions to WidgetMeta without looking at
\* `component`, `schema` or `handler`; the only statement of it that can throw
\* is the loop that logs zodToJsonSchema(meta.definition.schema).
ConstructorThrows(widgets) ==
    \E i \in DOMAIN widgets : TranslatorThrows(widgets[i].schema)

\* config.frontendUrl ?? "http://localhost:4444", and the four hex digits
\* generateAssetHash(config.version) returns.
frontendUrl == "http://localhost:4444"
assetHash == "hash"

\* htmlSrcOf with the default always taken.
htmlSrcOf_defaultOnly(widget) ==
    <<frontendUrl, "/", widget.component, "-", assetHash, ".js">>

\* processedWidgets: htmlSrc, cssSrc and rootElement are filled in from the
\* component name when the definition leaves them out (`??`: when the value
\* is undefined or null, not when it is the empty string).
htmlSrcOf(widget) ==
    IF widget.htmlSrc = <<>>
    THEN <<frontendUrl, "/", widget.component, "-", assetHash, ".js">>
    ELSE widget.htmlSrc

cssSrcOf(widget) ==
    IF widget.cssSrc = <<>>
    THEN <<frontendUrl, "/", widget.component, "-", assetHash, ".css">>
    ELSE widget.cssSrc

rootElementOf(widget) ==
    IF widget.rootElement = <<>> THEN <<widget.component, "-root">>
    ELSE widget.rootElement

\* utils.ts generateWidgetHtml: the root div, the stylesheet link when
\* cssSrc is truthy (neither undefined nor the empty string), the module
\* script, in this order.
generateWidgetHtml(rootElement, htmlSrc, cssSrc) ==
    <<[tag |-> "div", ref |-> rootElement]>>
    \o (IF cssSrc \in {<<>>, <<"">>} THEN <<>>
        ELSE <<[tag |-> "link", ref |-> cssSrc]>>)
    \o <<[tag |-> "script", ref |-> htmlSrc]>>

\* templateUri without the ".html" suffix.
templateUri_noSuffix(component) == <<"ui://widget/", component>>

\* `ui://widget/${widget.component}.html`
templateUri(component) == <<"ui://widget/", component, ".html">>

\* One element of processedWidgets: the definition with the three fields
\* filled in.
processedWidget(widget) ==
    [widget EXCEPT !.htmlSrc = htmlSrcOf(widget),
                   !.cssSrc = cssSrcOf(widget),
                   !.rootElement = rootElementOf(widget)]

\* widgetMetas: one WidgetMeta per definition, in definition order, made
\* from the processed definition.
WidgetMetas(widgets) ==
    [i \in DOMAIN widgets |->
        LET widget == processedWidget(widgets[i]) IN
        [component   |-> widget.component,
         title       |-> widget.title,
         templateUri |-> templateUri(widget.component),
         html        |-> generateWidgetHtml(widget.rootElement, widget.htmlSrc,
                                            widget.cssSrc),
         definition  |-> widget]]

\* utils.ts generateWidgetMeta: the metadata block, a map from key to value,
\* each value written as a sequence of text pieces.
\* The function declares five parameters; a sixth and a seventh argument are
\* evaluated by the caller and bound to nothing.
generateWidgetMeta(widgetId, title, invoking, invoked, widgetDescription) ==
    LET meta ==
          [k \in {"openai/outputTemplate", "openai/toolInvocation/invoking",
                  "openai/toolInvocation/invoked", "openai/widgetAccessible",
                  "openai/resultCanProduceWidget"} |->
             CASE k = "openai/outputTemplate" -> templateUri(widgetId)
               [] k = "openai/toolInvocation/invoking" ->
                    IF invoking = "undefined" THEN <<"Loading ", title, "...">>
                    ELSE invoking
               [] k = "openai/toolInvocation/invoked" ->
                    IF invoked = "undefined" THEN <<"Loaded ", title>>
                    ELSE invoked
               [] OTHER -> <<"true">>]
    IN  IF widgetDescription = "undefined" THEN meta
        ELSE [k \in DOMAIN meta \cup {"openai/widgetDescription"} |->
                IF k \in DOMAIN meta THEN meta[k] ELSE widgetDescription]

\* The call every descriptor and every output makes:
\* generateWidgetMeta(widget.component, widget.title, widget.meta?.invoking,
\* widget.meta?.invoked, widget.meta?.widgetDescription, widget.csp,
\* widget.widgetDomain).  The definitions have no `meta`.
MetaArguments(widget) ==
    <<widget.component, widget.title, "undefined", "undefined", "undefined",
      widget.csp, widget.widgetDomain>>

MetaBlock(widget) ==
    LET a == MetaArguments(widget)
    IN  generateWidgetMeta(a[1], a[2], a[3], a[4], a[5])

\* The `_def` view of a definition's schema: z.object({x: z.string()}),
\* z.object({x: z.string().optional()}), or nothing to read when the schema
\* is undefined.
ZodOf(schema) ==
    CASE schema = "NeedsX" ->
           [typeName |-> "ZodObject",
            shape |-> <<[key |-> "x", wrappers |-> <<>>, base |-> "ZodString"]>>]
      [] schema = "AllOptional" ->
           [typeName |-> "ZodObject",
            shape |-> <<[key |-> "x", wrappers |-> <<"ZodOptional">>,
                         base |-> "ZodString"]>>]
      [] OTHER -> [typeName |-> "undefined", shape |-> <<>>]

widgetToTool(widgetMeta) ==
    LET widget == widgetMeta.definition IN
    [name        |-> widget.component,
     description |-> widget.title,
     inputSchema |-> zodToJsonSchema(ZodOf(widget.schema)),
     title       |-> widget.title,
     annotations |-> widget.annotations,
     meta        |-> MetaBlock(widget)]

widgetToResource(widgetMeta) ==
    LET widget == widgetMeta.definition IN
    [uri         |-> widgetMeta.templateUri,
     name        |-> widget.title,
     description |-> <<widget.title, " widget markup">>,
     mimeType    |-> "text/html+skybridge",
     meta        |-> MetaBlock(widget)]

widgetToResourceTemplate(widgetMeta) ==
    LET widget == widgetMeta.definition IN
    [uriTemplate |-> widgetMeta.templateUri,
     name        |-> widget.title,
     description |-> <<widget.title, " widget markup">>,
     mimeType    |-> "text/html+skybridge",
     meta        |-> MetaBlock(widget)]

\* WidgetsByComponent with a miss answered by the first widget.
WidgetsByComponent_firstOnMiss(widgets, name) ==
    LET hits == {i \in DOMAIN widgets : widgets[i].component = name}
    IN  IF hits = {} THEN 1
        ELSE CHOOSE i \in hits : \A j \in hits : j <= i

\* createMcpServer: widgetsByComponent = new Map(widgetMetas.map(w =>
\* [w.component, w])).  A Map built from entries keeps the last entry of a
\* key, so the lookup gives the highest index with that component; 0 stands
\* for `undefined`.
WidgetsByComponent(widgets, name) ==
    LET hits == {i \in DOMAIN widgets : widgets[i].component = name}
    IN  IF hits = {} THEN 0
        ELSE CHOOSE i \in hits : \A j \in hits : j <= i

\* createMcpServer: widgetsByUri = new Map(widgetMetas.map(w =>
\* [w.templateUri, w])), read the same way.
WidgetsByUri(widgets, uri) ==
    LET hits == {i \in DOMAIN widgets : WidgetMetas(widgets)[i].templateUri = uri}
    IN  IF hits = {} THEN 0
        ELSE CHOOSE i \in hits : \A j \in hits : j <= i

\* tools with the list cut to its first entry.
tools_firstOnly(widgets) == <<widgetToTool(WidgetMetas(widgets)[1])>>

\* createMcpServer: the three arrays built when a router is created, each
\* widgetMetas.map(...) of one of the conversions.
tools(widgets) ==
    [i \in DOMAIN widgets |-> widgetToTool(WidgetMetas(widgets)[i])]

\* resources with the entries in reverse order.
resources_reversed(widgets) ==
    [i \in DOMAIN widgets |->
        widgetToResource(WidgetMetas(widgets)[Len(widgets) + 1 - i])]

resources(widgets) ==
    [i \in DOMAIN widgets |-> widgetToResource(WidgetMetas(widgets)[i])]

resourceTemplates(widgets) ==
    [i \in DOMAIN widgets |-> widgetToResourceTemplate(WidgetMetas(widgets)[i])]

\* widget.schema.parse(request.params.arguments ?? {}): an absent arguments
\* object is parsed as {}.  z.object({x: z.string()}) accepts {x: "s"} only;
\* with x optional {} is accepted too.
ParseOk(schema, arguments) ==
    LET value == IF arguments = "Absent" THEN "Empty" ELSE arguments IN
    \/ schema = "NeedsX" /\ value = "XString"
    \/ schema = "AllOptional" /\ value \in {"Empty", "XString"}

NoSession ==
    [hs |-> "none", transport |-> "none", router |-> "none",
     server |-> 0, stream |-> 0]

SessionIds == 1..MaxSessions

\* url.searchParams.get("sessionId"): null when the parameter is missing,
\* "" when it is present and empty, otherwise the string given.  Ids above
\* nextId were never issued by any transport.
MissingId == -1
EmptyId == 0
PostedIds == {MissingId, EmptyId} \cup 1..(MaxSessions + 1)

\* The event loop is between two callbacks: the last one has returned.
Idle == lastEvent.type = "none"

Init ==
    /\ config \in Configs
    /\ phase = "new"
    /\ sessions = {}
    /\ sess = [s \in SessionIds |-> NoSession]
    /\ nextId = 0
    /\ pending = {}
    /\ handlerCalls = 0
    /\ lastEvent = [type |-> "none"]
    /\ tIn = [typeName |-> "ZodObject", shape |-> <<>>]
    /\ tOut = [type |-> "none"]
    /\ aReq = [method |-> "GET", rest |-> <<>>]
    /\ aResp = NoResponse

\* new McpWidgetServer(config)
Construct ==
    /\ Idle
    /\ phase = "new"
    /\ phase' = IF ConstructorThrows(config) THEN "failed" ELSE "constructed"
    /\ lastEvent' = [type |-> "construct",
                     widgetMetas |-> IF ConstructorThrows(config) THEN <<>>
                                     ELSE WidgetMetas(config)]
    /\ UNCHANGED <<config, sessions, sess, nextId, pending, handlerCalls>>
    /\ UNCHANGED <<translatorVars, assetVars>>

\* server.start(): createServer(...) and httpServer.listen(port)
Start ==
    /\ Idle
    /\ phase = "constructed"
    /\ phase' = "listening"
    /\ lastEvent' = [type |-> "start"]
    /\ UNCHANGED <<config, sessions, sess, nextId, pending, handlerCalls>>
    /\ UNCHANGED <<translatorVars, assetVars>>

-----------------------------------------------------------------------------
(* Session manager: handleSseRequest and the transport callbacks *)

\* GET <ssePath>: handleSseRequest up to `await server.connect(transport)`.
\* The router and the transport are created, the record is put in the table
\* and the callbacks are installed before the handshake is awaited.
\* createMcpServerInstance with the router of the session before handed to
\* the next one.
createMcpServerInstance_shared == IF nextId = 0 THEN nextId + 1 ELSE nextId

\* this.createMcpServer() returns `new Server(...)` and new
\* SSEServerTransport(postPath, res) a new transport: each call makes an
\* object that did not exist before, numbered here by the calls made so far
\* (handleSseRequest makes one call of each, and nothing else calls them).
createMcpServerInstance == nextId + 1

SSEServerTransportInstance == nextId + 1

\* NewSessionId with the id of the session before handed out again.
NewSessionId_reused == IF nextId = 0 THEN nextId + 1 ELSE nextId

\* transport.sessionId: the identifier the SDK gives a new transport, a
\* random UUID; an id not given before.
NewSessionId == nextId + 1

HandleSseRequest ==
    /\ Idle
    /\ phase = "listening"
    /\ nextId < MaxSessions
    /\ LET sessionId == NewSessionId IN
        /\ nextId' = sessionId
        /\ sessions' = sessions \cup {sessionId}
        /\ sess' = [sess EXCEPT ![sessionId] =
                       [hs |-> "pending", transport |-> "created",
                        router |-> "created",
                        server |-> createMcpServerInstance,
                        stream |-> SSEServerTransportInstance]]
        /\ lastEvent' = [type |-> "sse", sid |-> sessionId]
    /\ UNCHANGED <<config, phase, pending, handlerCalls>>
    /\ UNCHANGED <<translatorVars, assetVars>>

\* server.connect(transport) resolves: the stream is open.
ConnectOk(s) ==
    /\ Idle
    /\ sess[s].hs = "pending"
    /\ sess' = [sess EXCEPT ![s].hs = "ok", ![s].transport = "started",
                            ![s].router = "connected"]
    /\ lastEvent' = [type |-> "connected", sid |-> s]
    /\ UNCHANGED <<config, phase, sessions, nextId, pending, handlerCalls>>
    /\ UNCHANGED <<translatorVars, assetVars>>

\* The table after the catch block of handleSseRequest.
SessionsAfterConnectFail(s) == sessions \ {s}

\* The router after the catch block of handleSseRequest: the block deletes
\* the table entry and answers 500; it makes no call on `server`.
RouterAfterConnectFail(s) == sess[s].router

\* server.connect(transport) rejects: the catch block of handleSseRequest.
ConnectFail(s, headersSent) ==
    /\ Idle
    /\ sess[s].hs = "pending"
    /\ sessions' = SessionsAfterConnectFail(s)
    /\ sess' = [sess EXCEPT ![s].hs = "failed",
                            ![s].router = RouterAfterConnectFail(s)]
    /\ lastEvent' = [type |-> "connectFailed", sid |-> s,
                     status |-> IF headersSent THEN 0 ELSE 500]
    /\ UNCHANGED <<config, phase, nextId, pending, handlerCalls>>
    /\ UNCHANGED <<translatorVars, assetVars>>

\* SessionsAfterClose with the delete left out.
SessionsAfterClose_keep(s) == sessions

\* The table after transport.onclose.
SessionsAfterClose(s) == sessions \ {s}

\* transport.onclose of a started transport: the entry is deleted, then
\* server.close() is called and awaited.
TransportClose(s) ==
    /\ Idle
    /\ sess[s].transport = "started"
    /\ sessions' = SessionsAfterClose(s)
    /\ sess' = [sess EXCEPT ![s].transport = "closed", ![s].router = "closing"]
    /\ lastEvent' = [type |-> "transportClose", sid |-> s]
    /\ UNCHANGED <<config, phase, nextId, pending, handlerCalls>>
    /\ UNCHANGED <<translatorVars, assetVars>>

\* SessionsAfterTeardown with the entry put back when server.close() rejects.
SessionsAfterTeardown_restoredOnFailure(s, ok) ==
    IF ok THEN sessions ELSE sessions \cup {s}

\* The table after `await server.close()` has settled: onclose has no
\* statement after the await and no catch, so the table stays as the delete
\* left it.
SessionsAfterTeardown(s, ok) == sessions

\* `await server.close()` settles, by resolving or by rejecting; either way
\* onclose has nothing left to run.
TeardownSettle(s, ok) ==
    /\ Idle
    /\ sess[s].router = "closing"
    /\ sessions' = SessionsAfterTeardown(s, ok)
    /\ sess' = [sess EXCEPT ![s].router = "closed"]
    /\ lastEvent' = [type |-> "teardown", sid |-> s, ok |-> ok]
    /\ UNCHANGED <<config, phase, nextId, pending, handlerCalls>>
    /\ UNCHANGED <<translatorVars, assetVars>>

\* SessionsAfterError with the entry deleted.
SessionsAfterError_deleted(s) == sessions \ {s}

\* The table after transport.onerror.
SessionsAfterError(s) == sessions

\* transport.onerror of a started transport: console.error and nothing else.
TransportError(s) ==
    /\ Idle
    /\ sess[s].transport = "started"
    /\ sessions' = SessionsAfterError(s)
    /\ lastEvent' = [type |-> "transportError", sid |-> s]
    /\ UNCHANGED <<config, phase, sess, nextId, pending, handlerCalls>>
    /\ UNCHANGED <<translatorVars, assetVars>>

-----------------------------------------------------------------------------
(* Request router: the request handlers of createMcpServer *)

\* request.params.uri of a read-resource request: the template uri of every
\* component and one that is none.
Uris == {templateUri(c) : c \in ToolNames}

Messages ==
    {[op |-> "list-tools"], [op |-> "list-resources"],
     [op |-> "list-resource-templates"]}
    \cup [op : {"read-resource"}, uri : Uris]
    \cup [op : {"call-tool"}, name : ToolNames, arguments : Arguments]

\* The three list handlers: each returns the array its router built.
ListResult(widgets, op) ==
    CASE op = "list-tools" -> [kind |-> "tools", tools |-> tools(widgets)]
      [] op = "list-resources" ->
           [kind |-> "resources", resources |-> resources(widgets)]
      [] op = "list-resource-templates" ->
           [kind |-> "resourceTemplates",
            resourceTemplates |-> resourceTemplates(widgets)]

\* The ReadResource handler: look the uri up (unknown: throw), else return
\* one content entry made from the WidgetMeta found.
ReadResourceResult(widgets, uri) ==
    LET idx == WidgetsByUri(widgets, uri) IN
    IF idx = 0
    THEN [kind |-> "read", uri |-> uri, outcome |-> "unknownResource",
          contents |-> <<>>]
    ELSE LET widgetMeta == WidgetMetas(widgets)[idx] IN
         [kind |-> "read", uri |-> uri, outcome |-> "ok",
          contents |-> <<[uri      |-> widgetMeta.templateUri,
                          mimeType |-> "text/html+skybridge",
                          text     |-> widgetMeta.html,
                          meta     |-> MetaBlock(widgetMeta.definition)]>>]

\* CallToolResult with the handler called before the arguments are parsed.
CallToolResult_handlerFirst(widgets, name, arguments) ==
    LET idx == WidgetsByComponent(widgets, name) IN
    IF idx = 0
    THEN [idx |-> 0, invoked |-> FALSE, outcome |-> "unknownTool"]
    ELSE IF ~widgets[idx].handler
    THEN [idx |-> idx, invoked |-> FALSE, outcome |-> "handlerError"]
    ELSE [idx |-> idx, invoked |-> TRUE,
          outcome |-> IF ParseOk(widgets[idx].schema, arguments)
                      THEN "suspended" ELSE "validationError"]

\* The CallTool handler up to its first suspension.  In order: look the name
\* up (unknown: throw), parse the arguments with the widget's schema (throw
\* on a validation failure), call widget.handler(args) (calling an undefined
\* handler throws a TypeError inside the try block) and await it.  `invoked`
\* says whether the handler function was entered.
CallToolResult(widgets, name, arguments) ==
    LET idx == WidgetsByComponent(widgets, name) IN
    IF idx = 0
    THEN [idx |-> 0, invoked |-> FALSE, outcome |-> "unknownTool"]
    ELSE IF ~ParseOk(widgets[idx].schema, arguments)
    THEN [idx |-> idx, invoked |-> FALSE, outcome |-> "validationError"]
    ELSE IF ~widgets[idx].handler
    THEN [idx |-> idx, invoked |-> FALSE, outcome |-> "handlerError"]
    ELSE [idx |-> idx, invoked |-> TRUE, outcome |-> "suspended"]

\* PostCheck with the `!sessionId` test left out.
PostCheck_noMissingTest(sid) ==
    IF sid \notin sessions THEN 404
    ELSE 0

\* handlePostMessage: the two checks made before the transport is touched.
\* `!sessionId` is true of null and of the empty string; 0 means the record
\* was found.
PostCheck(sid) ==
    IF sid = MissingId \/ sid = EmptyId THEN 400
    ELSE IF sid \notin sessions THEN 404
    ELSE 0

\* What the transport does with a POST it is handed; outside the repository.
\*   "accepted"      handlePostMessage resolves, the message went to onmessage
\*   "throwsEarly"   it throws before any response header was written
\*   "throwsLate"    it throws after it wrote its own response
TransportOutcomes == {"accepted", "throwsEarly", "throwsLate"}

\* Dispatched with a message held back while a handler called for the same
\* session is pending.
Dispatched_oneAtATime(sid, outcome) ==
    /\ outcome = "accepted"
    /\ sess[sid].router = "connected"
    /\ \A p \in pending : p.sid # sid

\* server.connect(transport) makes the router the receiver of the messages
\* of the transport: a message the transport accepts is handed to the
\* router's handler for it in the same turn of the event loop.
Dispatched(sid, outcome) ==
    /\ outcome = "accepted"
    /\ sess[sid].router = "connected"

\* PostAnswer with the catch block left out: the exception leaves
\* handlePostMessage and nothing is written.
PostAnswer_noCatch(outcome) ==
    CASE outcome = "accepted"    -> [status |-> 202, escaped |-> FALSE]
      [] outcome = "throwsEarly" -> [status |-> 0, escaped |-> TRUE]
      [] outcome = "throwsLate"  -> [status |-> 0, escaped |-> TRUE]

\* The try/catch around session.transport.handlePostMessage(req, res): the
\* status handlePostMessage answers with and whether an exception leaves it.
\* An accepted message is answered 202 by the transport; an exception is
\* caught and answered 500 when no header was sent; status 0 stands for the
\* response the transport had written itself before it threw.
PostAnswer(outcome) ==
    CASE outcome = "accepted"    -> [status |-> 202, escaped |-> FALSE]
      [] outcome = "throwsEarly" -> [status |-> 500, escaped |-> FALSE]
      [] outcome = "throwsLate"  -> [status |-> 0, escaped |-> FALSE]

\* POST <postPath>?sessionId=sid carrying msg.  A request that fails a check
\* is answered before its body is read, so msg and outcome play no part in it.
HandlePostMessage(sid, msg, outcome) ==
    /\ Idle
    /\ phase = "listening"
    /\ IF PostCheck(sid) # 0
       THEN /\ lastEvent' = [type |-> "post", sid |-> sid, status |-> PostCheck(sid),
                             deliveredTo |-> 0, transport |-> "untouched",
                             escaped |-> FALSE, result |-> [kind |-> "none"]]
            /\ outcome = "accepted"
            /\ msg = [op |-> "list-tools"]
            /\ UNCHANGED <<sessions, pending, handlerCalls>>
       ELSE LET dispatched == Dispatched(sid, outcome)
                status == PostAnswer(outcome).status
                r == IF msg.op = "call-tool"
                     THEN CallToolResult(config, msg.name, msg.arguments)
                     ELSE [idx |-> 0, invoked |-> FALSE, outcome |-> "none"]
            IN
            \* a transport that was never started has no stream to accept on
            /\ sess[sid].transport # "started" => outcome # "accepted"
            /\ IF dispatched /\ r.invoked
               THEN /\ handlerCalls < MaxCalls
                    /\ Cardinality(pending) < MaxPending
                    /\ [sid |-> sid, idx |-> r.idx] \notin pending
                    /\ handlerCalls' = handlerCalls + 1
                    /\ pending' = pending \cup {[sid |-> sid, idx |-> r.idx]}
               ELSE UNCHANGED <<pending, handlerCalls>>
            /\ lastEvent' =
                 [type |-> "post", sid |-> sid, status |-> status,
                  deliveredTo |-> sid, transport |-> outcome,
                  escaped |-> PostAnswer(outcome).escaped,
                  result |->
                    IF ~dispatched THEN [kind |-> "none"]
                    ELSE IF msg.op = "read-resource"
                    THEN ReadResourceResult(config, msg.uri)
                    ELSE IF msg.op # "call-tool"
                    THEN ListResult(config, msg.op)
                    ELSE [kind |-> "call", name |-> msg.name,
                          arguments |-> msg.arguments, idx |-> r.idx,
                          invoked |-> r.invoked, outcome |-> r.outcome]]
            /\ UNCHANGED sessions
    /\ UNCHANGED <<config, phase, sess, nextId>>
    /\ UNCHANGED <<translatorVars, assetVars>>

\* How `await widget.handler(args)` can settle: the promise resolves with
\* {text} or {text, data}, resolves with undefined, or rejects.
Settlements ==
    [kind : {"resolve"}, text : {"hi"}, data : {"undefined", "plans"}]
    \cup [kind : {"resolveUndefined", "reject"}, text : {"undefined"},
          data : {"undefined"}]

NoEnvelope == [content |-> <<>>, structuredContent |-> "undefined", meta |-> <<>>]

\* Envelope with the text also given as structuredContent.
Envelope_textAsData(widget, result) ==
    [content |-> <<[type |-> "text", text |-> result.text]>>,
     structuredContent |-> result.text,
     meta |-> MetaBlock(widget)]

\* The value the CallTool handler returns; a structuredContent of undefined
\* is left out when the response is serialised.
Envelope(widget, result) ==
    [content |-> <<[type |-> "text", text |-> result.text]>>,
     structuredContent |-> result.data,
     meta |-> MetaBlock(widget)]

\* `await widget.handler(args)` settles.  On a rejection the catch block
\* rethrows; on undefined the read of result.text in the log statement
\* throws and is rethrown; else the CallTool handler returns the envelope.
HandlerSettle(p, how) ==
    /\ Idle
    /\ p \in pending
    /\ pending' = pending \ {p}
    /\ lastEvent' = [type |-> "callDone", sid |-> p.sid, idx |-> p.idx,
                     returned |-> how,
                     outcome |-> CASE how.kind = "reject" -> "handlerError"
                                   [] how.kind = "resolveUndefined" -> "resultError"
                                   [] OTHER -> "success",
                     envelope |-> IF how.kind = "resolve"
                                  THEN Envelope(config[p.idx], how)
                                  ELSE NoEnvelope]
    /\ UNCHANGED <<config, phase, sessions, sess, nextId, handlerCalls>>
    /\ UNCHANGED <<translatorVars, assetVars>>

\* config.ssePath ?? "/mcp" and config.postPath ?? "/mcp/messages".
ssePath == "/mcp"
postPath == "/mcp/messages"

\* Request paths besides the two above: two that start with "/assets/" and
\* one that matches nothing.
AssetPaths == {"/assets/a.js", "/assets/passwd"}
Paths == {ssePath, postPath, "/other"} \cup AssetPaths

\* The branch of the request listener a request takes, in the order the
\* listener tests them.
Route(method, path) ==
    IF method = "OPTIONS" /\ path \in {ssePath, postPath} THEN "preflight"
    ELSE IF method = "GET" /\ path = ssePath THEN "sse"
    ELSE IF method = "POST" /\ path = postPath THEN "post"
    ELSE IF method \in {"GET", "OPTIONS"} /\ path \in AssetPaths THEN "asset"
    ELSE "notFound"

\* Requests that reach neither handleSseRequest nor handlePostMessage.
OtherRequests ==
    {[method |-> "OPTIONS", path |-> ssePath],
     [method |-> "OPTIONS", path |-> postPath],
     [method |-> "GET", path |-> "/assets/a.js"],
     [method |-> "OPTIONS", path |-> "/assets/passwd"],
     [method |-> "DELETE", path |-> ssePath],
     [method |-> "GET", path |-> "/other"]}

\* The request listener on a request of OtherRequests: the preflight answer,
\* the asset branch, or the final 404.
HandleOtherRequest(req) ==
    /\ Idle
    /\ phase = "listening"
    /\ Route(req.method, req.path) \in {"preflight", "asset", "notFound"}
    /\ lastEvent' =
         [type |-> "http", method |-> req.method, path |-> req.path,
          route |-> Route(req.method, req.path),
          status |->
            CASE Route(req.method, req.path) = "preflight" -> 204
              [] Route(req.method, req.path) = "asset" ->
                   AssetResponse(
                       [method |-> req.method,
                        rest |-> <<[sep |-> "/",
                                    atom |-> IF req.path = "/assets/a.js"
                                             THEN "a.js" ELSE "passwd"]>>],
                       FALSE).status
              [] OTHER -> 404]
    /\ UNCHANGED <<config, phase, sessions, sess, nextId, pending, handlerCalls>>
    /\ UNCHANGED <<translatorVars, assetVars>>

\* The callback returns: its response is written and the event loop is free
\* to run the next callback.
Return ==
    /\ ~Idle
    /\ lastEvent' = [type |-> "none"]
    /\ UNCHANGED <<config, phase, sessions, sess, nextId, pending, handlerCalls>>
    /\ UNCHANGED <<translatorVars, assetVars>>

-----------------------------------------------------------------------------
Next ==
    \/ Construct
    \/ Start
    \/ HandleSseRequest
    \/ \E s \in SessionIds : ConnectOk(s)
    \/ \E s \in SessionIds, headersSent \in BOOLEAN : ConnectFail(s, headersSent)
    \/ \E s \in SessionIds : TransportClose(s)
    \/ \E s \in SessionIds, ok \in BOOLEAN : TeardownSettle(s, ok)
    \/ \E s \in SessionIds : TransportError(s)
    \/ \E sid \in PostedIds, msg \in Messages, outcome \in TransportOutcomes :
          HandlePostMessage(sid, msg, outcome)
    \/ \E p \in pending, how \in Settlements : HandlerSettle(p, how)
    \/ \E req \in OtherRequests : HandleOtherRequest(req)
    \/ Return

Spec == Init /\ [][Next]_vars

-----------------------------------------------------------------------------
(* Properties of the session engine and the router, checked under Spec *)

IsCallEvent(e) == e.type = "post" /\ e.result.kind = "call"

TornDown(s) == sess[s].router \in {"closing", "closed"}

\* C1: a call-tool request that names a widget and whose arguments fail that
\* widget's schema never enters the widget's handler (no handler call count
\* changes, nothing is left suspended) and ends in a failure, whatever
\* happened before it.
C1_InvalidArgsNeverReachHandler ==
    [][ (/\ IsCallEvent(lastEvent')
         /\ lastEvent'.result.idx # 0
         /\ ~ParseOk(config[lastEvent'.result.idx].schema,
                     lastEvent'.result.arguments))
        => /\ handlerCalls' = handlerCalls
           /\ pending' = pending
           /\ ~lastEvent'.result.invoked
           /\ lastEvent'.result.outcome = "validationError" ]_vars

\* C1 witness: a call with invalid arguments failed after a handler had
\* already been invoked by an earlier request.
C1_Witness ==
    /\ IsCallEvent(lastEvent)
    /\ lastEvent.result.outcome = "validationError"
    /\ lastEvent.result.arguments = "XNumber"
    /\ handlerCalls > 0

\* C2: once the transport of a session opened by GET has closed, the id is
\* not in the session table, and a POST naming it is answered 404 and handed
\* to no transport.
C2_ClosedSessionUnknown ==
    /\ \A s \in SessionIds : sess[s].transport = "closed" => s \notin sessions
    /\ (/\ lastEvent.type = "post"
        /\ lastEvent.sid \in SessionIds
        /\ sess[lastEvent.sid].transport = "closed")
       => (lastEvent.status = 404 /\ lastEvent.deliveredTo = 0)

\* C2 witness: a POST named a session whose transport had closed.
C2_Witness ==
    /\ lastEvent.type = "post"
    /\ lastEvent.sid \in SessionIds
    /\ sess[lastEvent.sid].transport = "closed"
    /\ lastEvent.status = 404

\* C3: after a failed handshake the id is out of the table and the router
\* created for the session has been torn down.
C3_FailedHandshakeCleansUp ==
    \A s \in SessionIds :
        sess[s].hs = "failed" => (s \notin sessions /\ TornDown(s))

\* C4: a transport error on an open session removes it from the table and
\* tears its router down.
C4_TransportErrorCloses ==
    lastEvent.type = "transportError"
        => (lastEvent.sid \notin sessions /\ TornDown(lastEvent.sid))

\* C5: a POST is handed to a session's transport only if that session's
\* handshake has completed (the session is OPEN, not CONNECTING).
C5_DeliveredOnlyWhenOpen ==
    (lastEvent.type = "post" /\ lastEvent.deliveredTo # 0)
        => sess[lastEvent.deliveredTo].hs = "ok"

\* C6 as stated: a POST without a sessionId parameter is answered 400 and a
\* POST whose sessionId is not a key of the table is answered 404.
C6_UnknownIdIs404 ==
    lastEvent.type = "post"
        => /\ lastEvent.sid = MissingId => lastEvent.status = 400
           /\ (lastEvent.sid # MissingId /\ lastEvent.sid \notin sessions)
                  => lastEvent.status = 404

\* C6 amended: a POST whose sessionId is missing or empty is answered 400, a
\* POST whose non-empty sessionId is not a key of the table is answered 404,
\* and in both cases the table is unchanged, no transport gets the message
\* and no router or handler state changes.
C6_RejectedPostFrame ==
    [][ (lastEvent'.type = "post" /\ lastEvent'.sid \notin sessions)
        => /\ lastEvent'.status =
                 (IF lastEvent'.sid \in {MissingId, EmptyId} THEN 400 ELSE 404)
           /\ lastEvent'.deliveredTo = 0
           /\ sessions' = sessions
           /\ sess' = sess
           /\ pending' = pending
           /\ handlerCalls' = handlerCalls ]_vars

\* C6 witness: both rejections happen while another session is open.
C6_Witness ==
    /\ lastEvent.type = "post"
    /\ lastEvent.status = 404
    /\ lastEvent.sid \notin sessions
    /\ \E s \in sessions : sess[s].hs = "ok"

HasDuplicateComponent(widgets) ==
    \E i, j \in DOMAIN widgets : i # j /\ widgets[i].component = widgets[j].component

HasMissingPart(widgets) ==
    \E i \in DOMAIN widgets : widgets[i].schema = "Missing" \/ ~widgets[i].handler

\* C9: a definition list with two equal `component` values makes construction
\* fail: the server is never constructed, never listens, opens no session.
\* Stated for lists in which every definition has its schema and its handler,
\* where the duplicate is the only reason construction could fail for.
C9_DuplicateComponentRejected ==
    (HasDuplicateComponent(config) /\ ~HasMissingPart(config))
        => (phase \in {"new", "failed"} /\ nextId = 0)

\* C10: a definition without schema or without handler makes startup fail:
\* the server never listens, no session is opened and no call-tool reaches
\* such a definition.  Stated for lists with distinct component values.
C10_MissingPartRejected ==
    (HasMissingPart(config) /\ ~HasDuplicateComponent(config))
        => /\ phase \in {"new", "constructed", "failed"}
           /\ nextId = 0
           /\ ~(IsCallEvent(lastEvent) /\ lastEvent.result.idx # 0)

\* C11: a call-tool request whose name matches no widget component fails
\* with the unknown-tool error without entering any handler, and leaves the
\* session as it was: in the table, handshake done, transport started, router
\* connected, which is the state in which the next request is dispatched.
C11_UnknownToolKeepsSession ==
    [][ (/\ IsCallEvent(lastEvent')
         /\ \A i \in DOMAIN config : config[i].component # lastEvent'.result.name)
        => /\ lastEvent'.result.outcome = "unknownTool"
           /\ ~lastEvent'.result.invoked
           /\ handlerCalls' = handlerCalls
           /\ pending' = pending
           /\ sessions' = sessions
           /\ sess' = sess
           /\ lastEvent'.sid \in sessions'
           /\ sess'[lastEvent'.sid].hs = "ok"
           /\ sess'[lastEvent'.sid].transport = "started"
           /\ sess'[lastEvent'.sid].router = "connected" ]_vars

\* C11 witness: an unknown name was refused on a session that stays open,
\* after a handler had been entered by an earlier request.
C11_Witness ==
    /\ IsCallEvent(lastEvent)
    /\ lastEvent.result.name = "unknown-widget"
    /\ lastEvent.result.outcome = "unknownTool"
    /\ lastEvent.sid \in sessions
    /\ sess[lastEvent.sid].router = "connected"
    /\ handlerCalls > 0

Open(s) ==
    /\ s \in sessions
    /\ sess[s].hs = "ok"
    /\ sess[s].transport = "started"
    /\ sess[s].router = "connected"

SuspendedElsewhere(s) == \E p \in pending : p.sid # s

\* C12: while a call-tool of one session is suspended on its handler, a
\* list-tools request on another open session can be handled at once, and
\* when it is handled its result is the full tool list, one name per
\* definition in definition order.
C12_PendingHandlerDoesNotBlock ==
    /\ \A s \in SessionIds :
          (Idle /\ phase = "listening" /\ Open(s) /\ SuspendedElsewhere(s))
              => ENABLED HandlePostMessage(s, [op |-> "list-tools"], "accepted")
    /\ (/\ lastEvent.type = "post"
        /\ lastEvent.deliveredTo # 0
        /\ lastEvent.status = 202
        /\ Open(lastEvent.sid)
        /\ SuspendedElsewhere(lastEvent.sid)
        /\ lastEvent.result.kind = "tools")
       => /\ Len(lastEvent.result.tools) = Len(config)
          /\ \A i \in DOMAIN config :
                lastEvent.result.tools[i].name = config[i].component

\* C12 witness: list-tools answered on one session while the handler called
\* for the other session is still pending.
C12_Witness ==
    /\ lastEvent.type = "post"
    /\ lastEvent.result.kind = "tools"
    /\ Len(config) = MaxWidgets
    /\ Open(lastEvent.sid)
    /\ \E p \in pending : p.sid # lastEvent.sid /\ Open(p.sid)

\* C13: a call-tool request that names a known widget and whose arguments
\* pass that widget's schema enters the widget's handler exactly once; and
\* when the handler fails, the request ends in that failure, with no second
\* call of the handler.
C13_HandlerInvokedExactlyOnce ==
    [][ /\ (/\ IsCallEvent(lastEvent')
            /\ lastEvent'.result.idx # 0
            /\ ParseOk(config[lastEvent'.result.idx].schema,
                       lastEvent'.result.arguments))
           => /\ lastEvent'.result.invoked
              /\ handlerCalls' = handlerCalls + 1
        /\ (lastEvent'.type = "callDone" /\ lastEvent'.outcome = "handlerError")
           => /\ handlerCalls' = handlerCalls
              /\ lastEvent'.envelope.content = <<>> ]_vars

\* Some key of the metadata block holds the value (nothing to hold when the
\* definition leaves the field out).
Carries(meta, value) ==
    value = "undefined" \/ \E k \in DOMAIN meta : meta[k] = <<value>>

CarriesHints(meta, widget) ==
    Carries(meta, widget.csp) /\ Carries(meta, widget.widgetDomain)

\* C17: what the router advertises for a widget carries the definition's
\* annotations in the tool descriptor, and its csp and widgetDomain in the
\* metadata block of the tool, the resource, the resource template, the
\* read-resource content and the call-tool envelope.
C17_HintsPassedThrough ==
    /\ (lastEvent.type = "post" /\ lastEvent.result.kind = "tools")
          => \A i \in DOMAIN config :
                /\ lastEvent.result.tools[i].annotations = config[i].annotations
                /\ CarriesHints(lastEvent.result.tools[i].meta, config[i])
    /\ (lastEvent.type = "post" /\ lastEvent.result.kind = "resources")
          => \A i \in DOMAIN config :
                CarriesHints(lastEvent.result.resources[i].meta, config[i])
    /\ (lastEvent.type = "post" /\ lastEvent.result.kind = "resourceTemplates")
          => \A i \in DOMAIN config :
                CarriesHints(lastEvent.result.resourceTemplates[i].meta, config[i])
    /\ (/\ lastEvent.type = "post"
        /\ lastEvent.result.kind = "read"
        /\ lastEvent.result.outcome = "ok")
          => \A i \in DOMAIN config :
                templateUri(config[i].component) = lastEvent.result.uri
                    => CarriesHints(lastEvent.result.contents[1].meta, config[i])
    /\ (lastEvent.type = "callDone" /\ lastEvent.outcome = "success")
          => CarriesHints(lastEvent.envelope.meta, config[lastEvent.idx])

IsListEvent(e) ==
    e.type = "post" /\ e.result.kind \in {"tools", "resources", "resourceTemplates"}

\* C18: the definition list never changes, and every answer to list-tools,
\* list-resources or list-resource-templates, on whichever session and after
\* whatever requests, is the same function of that list: one entry per
\* definition, in definition order, made from that definition.  Two calls of
\* the same list operation therefore return equal results.
C18_ListsDeterministic ==
    [][ /\ config' = config
        /\ IsListEvent(lastEvent') =>
             LET r == lastEvent'.result IN
             /\ r.kind = "tools" =>
                  /\ Len(r.tools) = Len(config)
                  /\ \A i \in DOMAIN config :
                        /\ r.tools[i].name = config[i].component
                        /\ r.tools[i].title = config[i].title
                        /\ r.tools[i].annotations = config[i].annotations
                        /\ r.tools[i].meta["openai/outputTemplate"]
                               = <<"ui://widget/", config[i].component, ".html">>
             /\ r.kind = "resources" =>
                  /\ Len(r.resources) = Len(config)
                  /\ \A i \in DOMAIN config :
                        /\ r.resources[i].uri
                               = <<"ui://widget/", config[i].component, ".html">>
                        /\ r.resources[i].name = config[i].title
             /\ r.kind = "resourceTemplates" =>
                  /\ Len(r.resourceTemplates) = Len(config)
                  /\ \A i \in DOMAIN config :
                        /\ r.resourceTemplates[i].uriTemplate
                               = <<"ui://widget/", config[i].component, ".html">>
                        /\ r.resourceTemplates[i].name = config[i].title ]_vars

\* C18 witness: list-resources answered on the second session, for two
\* widgets, after a call-tool had entered a handler, the first session still
\* being open.
C18_Witness ==
    /\ lastEvent.type = "post"
    /\ lastEvent.result.kind = "resources"
    /\ lastEvent.sid = 2
    /\ Open(1)
    /\ handlerCalls > 0
    /\ Len(config) = 2
    /\ config[1].component # config[2].component

\* C19: when the constructor returns for a definition list with pairwise
\* distinct component values, widgetMetas has exactly one WidgetMeta per
\* definition, in definition order, each made from its definition and with
\* templateUri "ui://widget/" + component + ".html".
C19_OneMetaPerDefinition ==
    (/\ lastEvent.type = "construct"
     /\ phase = "constructed"
     /\ ~HasDuplicateComponent(config))
        => /\ Len(lastEvent.widgetMetas) = Len(config)
           /\ \A i \in DOMAIN config :
                 /\ lastEvent.widgetMetas[i].component = config[i].component
                 /\ [lastEvent.widgetMetas[i].definition
                        EXCEPT !.htmlSrc = config[i].htmlSrc,
                               !.cssSrc = config[i].cssSrc,
                               !.rootElement = config[i].rootElement] = config[i]
                 /\ lastEvent.widgetMetas[i].templateUri
                        = <<"ui://widget/", config[i].component, ".html">>
           /\ \A i, j \in DOMAIN config :
                 i # j => lastEvent.widgetMetas[i].templateUri
                             # lastEvent.widgetMetas[j].templateUri

\* C19 witness: the constructor returned for two definitions with different
\* component values.
C19_Witness ==
    /\ lastEvent.type = "construct"
    /\ phase = "constructed"
    /\ Len(config) = 2
    /\ config[1].component # config[2].component

IsReadEvent(e) == e.type = "post" /\ e.result.kind = "read"

\* C20: read-resource with a uri that is the templateUri of no widget fails
\* with the unknown-resource error; with the templateUri of a widget it
\* returns exactly one content entry, whose uri is that templateUri, whose
\* text is that widget's markup and whose metadata is that widget's block.
C20_ReadResource ==
    IsReadEvent(lastEvent) =>
        LET r == lastEvent.result IN
        /\ (\A i \in DOMAIN config : templateUri(config[i].component) # r.uri)
              => (r.outcome = "unknownResource" /\ r.contents = <<>>)
        /\ \A i \in DOMAIN config :
              templateUri(config[i].component) = r.uri
                  => /\ r.outcome = "ok"
                     /\ Len(r.contents) = 1
                     /\ r.contents[1].uri = r.uri
                     /\ r.contents[1].text = WidgetMetas(config)[i].html
                     /\ r.contents[1].meta["openai/toolInvocation/invoking"]
                            = <<"Loading ", config[i].title, "...">>
                     /\ r.contents[1].meta["openai/outputTemplate"] = r.uri

\* C21: a call-tool whose handler resolved returns exactly one text content
\* block with the handler's text, the metadata block of the called widget,
\* and the handler's data as structuredContent (none when the handler gave
\* no data); and a call-tool without arguments is validated as {} is.
C21_CallToolEnvelope ==
    /\ (lastEvent.type = "callDone" /\ lastEvent.outcome = "success")
          => LET e == lastEvent.envelope
                 w == config[lastEvent.idx]
             IN  /\ Len(e.content) = 1
                 /\ e.content[1] = [type |-> "text", text |-> lastEvent.returned.text]
                 /\ e.structuredContent = lastEvent.returned.data
                 /\ e.meta["openai/outputTemplate"]
                        = <<"ui://widget/", w.component, ".html">>
                 /\ e.meta["openai/toolInvocation/invoking"]
                        = <<"Loading ", w.title, "...">>
                 /\ e.meta["openai/toolInvocation/invoked"] = <<"Loaded ", w.title>>
    /\ (/\ IsCallEvent(lastEvent)
        /\ lastEvent.result.idx # 0
        /\ lastEvent.result.arguments = "Absent")
          => LET w == config[lastEvent.result.idx] IN
             /\ w.schema = "NeedsX" => lastEvent.result.outcome = "validationError"
             /\ (w.schema = "AllOptional" /\ w.handler) => lastEvent.result.invoked

\* C21 witness: the handler of a widget whose schema accepts {} resolved
\* with text only and the envelope has no structuredContent.
C21_Witness ==
    /\ lastEvent.type = "callDone"
    /\ lastEvent.outcome = "success"
    /\ lastEvent.returned.data = "undefined"
    /\ lastEvent.envelope.structuredContent = "undefined"
    /\ config[lastEvent.idx].schema = "AllOptional"

\* C22: any two distinct session ids in the session table are bound to two
\* distinct router instances and two distinct transports.
C22_RoutersNotShared ==
    \A s, t \in sessions :
        s # t => /\ sess[s].server # sess[t].server
                 /\ sess[s].stream # sess[t].stream

\* C22 witness: two sessions are in the table, both open.
C22_Witness ==
    /\ Cardinality(sessions) = 2
    /\ \A s \in sessions : Open(s)

\* The id was handed out by an earlier GET and is no longer in the table.
Retired(s) == sess[s].hs # "none" /\ s \notin sessions

\* C23: an id that has left the session table is never in it again; a new
\* GET on the streaming path gets an id and a router not used before; and a
\* POST carrying a retired id is rejected, whatever was opened since.
C23_SessionIdsNeverReused ==
    [][ /\ \A s \in SessionIds :
              Retired(s)
                  => /\ s \notin sessions'
                     /\ (lastEvent'.type = "post" /\ lastEvent'.sid = s)
                           => (lastEvent'.status = 404 /\ lastEvent'.deliveredTo = 0)
        /\ lastEvent'.type = "sse"
              => /\ sess[lastEvent'.sid].hs = "none"
                 /\ \A s \in SessionIds :
                       sess[s].hs # "none"
                           => sess'[lastEvent'.sid].server # sess[s].server ]_vars

\* C23 witness: after the first session closed and a second was opened, a
\* POST carrying the first id was answered 404.
C23_Witness ==
    /\ lastEvent.type = "post"
    /\ lastEvent.sid = 1
    /\ lastEvent.status = 404
    /\ Retired(1)
    /\ Open(2)

\* C24: the session table is changed only by the session add (GET on the
\* streaming path puts the new id in) and the session remove (transport
\* close and handshake failure take the id out); every other step, a POST
\* delivered or rejected, a protocol operation, a settled handler, a
\* preflight, an asset request, an unmatched request, a transport error,
\* leaves it as it was.
C24_SessionTableFrame ==
    [][ /\ lastEvent'.type = "sse" => sessions' = sessions \cup {lastEvent'.sid}
        /\ lastEvent'.type \in {"transportClose", "connectFailed"}
              => sessions' = sessions \ {lastEvent'.sid}
        /\ lastEvent'.type \notin {"sse", "transportClose", "connectFailed"}
              => sessions' = sessions ]_vars

\* C24 witness: an asset request was answered while a session is open.
C24_Witness ==
    /\ lastEvent.type = "http"
    /\ lastEvent.route = "asset"
    /\ lastEvent.status = 200
    /\ \E s \in sessions : Open(s)

C28_RemovedBeforeTeardown ==
    /\ \A s \in SessionIds : TornDown(s) => s \notin sessions
    /\ (/\ lastEvent.type = "post"
        /\ lastEvent.sid \in SessionIds
        /\ sess[lastEvent.sid].router = "closing")
       => (lastEvent.status = 404 /\ lastEvent.deliveredTo = 0)
    /\ lastEvent.type \in {"transportClose", "teardown"}
            => lastEvent.sid \notin sessions

\* C28 witness: a POST named a session whose router teardown was still
\* awaited and got 404.
C28_Witness ==
    /\ lastEvent.type = "post"
    /\ lastEvent.sid \in SessionIds
    /\ sess[lastEvent.sid].router = "closing"
    /\ lastEvent.status = 404
    /\ lastEvent.deliveredTo = 0

\* C29: a POST that names a session of the table and whose delivery to the
\* session's transport throws is answered 500 when no response header was
\* sent (and left as the transport answered it otherwise), no exception
\* leaves the request handler, and the table and the session are as before,
\* so the id still passes the checks of a later POST; every POST that names
\* an id of the table is handed to that session's transport.
C29_DeliveryFailureKeepsSession ==
    [][lastEvent'.type = "post"
         => /\ lastEvent'.sid \in sessions => lastEvent'.deliveredTo = lastEvent'.sid
            /\ lastEvent'.transport \in {"throwsEarly", "throwsLate"}
                 => /\ lastEvent'.sid \in sessions
                    /\ lastEvent'.transport = "throwsEarly" => lastEvent'.status = 500
                    /\ lastEvent'.transport = "throwsLate" => lastEvent'.status = 0
                    /\ ~lastEvent'.escaped
                    /\ sessions' = sessions
                    /\ sess' = sess
                    /\ lastEvent'.sid \in sessions']_vars

\* C29 witness: delivery to the started transport of an open session threw
\* before any header was sent; the POST got 500 and the session is in the
\* table.
C29_Witness ==
    /\ lastEvent.type = "post"
    /\ lastEvent.transport = "throwsEarly"
    /\ lastEvent.status = 500
    /\ lastEvent.sid \in sessions
    /\ sess[lastEvent.sid].transport = "started"
    /\ sess[lastEvent.sid].hs = "ok"

\* C30: for every tool descriptor list-tools returns, a call-tool with the
\* descriptor's name does not fail with the unknown-tool error and is
\* dispatched to the definition the descriptor was built from, and a
\* read-resource with the descriptor's output-template uri does not fail with
\* the unknown-resource error and returns the markup of that definition.
C30_DiscoveryMatchesInvocation ==
    /\ IsCallEvent(lastEvent)
          => \A i \in DOMAIN tools(config) :
                tools(config)[i].name = lastEvent.result.name
                    => /\ lastEvent.result.outcome # "unknownTool"
                       /\ lastEvent.result.idx = i
    /\ IsReadEvent(lastEvent)
          => \A i \in DOMAIN tools(config) :
                tools(config)[i].meta["openai/outputTemplate"] = lastEvent.result.uri
                    => /\ lastEvent.result.outcome = "ok"
                       /\ Len(lastEvent.result.contents) = 1
                       /\ lastEvent.result.contents[1].text
                              = WidgetMetas(config)[i].html

-----------------------------------------------------------------------------
(* Runs of the schema translator on its own, checked under SpecTranslator *)

\* One configuration the translator runs are made in.
OneWidget ==
    <<[component |-> "a", title |-> "Alpha", schema |-> "NeedsX", handler |-> TRUE,
       annotations |-> "undefined", csp |-> "undefined", widgetDomain |-> "undefined",
       htmlSrc |-> <<>>, cssSrc |-> <<>>, rootElement |-> <<>>]>>

InitTranslator ==
    /\ config = OneWidget
    /\ phase = "new"
    /\ sessions = {}
    /\ sess = [s \in SessionIds |-> NoSession]
    /\ nextId = 0
    /\ pending = {}
    /\ handlerCalls = 0
    /\ lastEvent = [type |-> "none"]
    /\ tIn \in Schemas
    /\ tOut = [type |-> "none"]
    /\ aReq = [method |-> "GET", rest |-> <<>>]
    /\ aResp = NoResponse

\* A call of zodToJsonSchema(tIn).
Translate ==
    /\ tOut.type = "none"
    /\ tOut' = zodToJsonSchema(tIn)
    /\ UNCHANGED <<tIn, serverVars, assetVars>>

\* The caller writes one more field into the z.object({...}) it will pass.
AddField(wrappers, base) ==
    /\ tOut.type = "none"
    /\ tIn.typeName = "ZodObject"
    /\ Len(tIn.shape) < MaxFields
    /\ LayersUsed(tIn.shape) + Len(wrappers) <= MaxLayers
    /\ tIn' = [tIn EXCEPT !.shape =
                  Append(@, [key |-> FieldKeys[Len(@) + 1],
                             wrappers |-> wrappers, base |-> base])]
    /\ UNCHANGED <<tOut, serverVars, assetVars>>

NextTranslator ==
    \/ \E k \in 0..MaxLayers, base \in BaseTypes :
          \E wrappers \in [1..k -> Wrappers] : AddField(wrappers, base)
    \/ Translate

SpecTranslator == InitTranslator /\ [][NextTranslator]_vars

Range(seq) == {seq[i] : i \in DOMAIN seq}

Unwrapped(f) == Range(f.wrappers) \cap {"ZodOptional", "ZodNullable", "ZodDefault"} = {}

ExampleSchema ==
    [typeName |-> "ZodObject",
     shape |-> << [key |-> "a", wrappers |-> <<>>, base |-> "ZodString"],
                  [key |-> "b", wrappers |-> <<"ZodOptional">>, base |-> "ZodNumber"],
                  [key |-> "c", wrappers |-> <<"ZodDefault">>, base |-> "ZodBoolean"] >>]

\* C8: in the description of an object schema, a field (one that resolves to
\* a base type) is in `required` iff no layer of its chain is an optional,
\* nullable or default wrapper; for {a: string, b: optional number,
\* c: defaulted boolean} required is ["a"] and the three properties are
\* string, number, boolean.
C8_RequiredIffUnwrapped ==
    (tOut.type = "object" /\ tIn.typeName = "ZodObject")
        => /\ \A i \in DOMAIN tIn.shape :
                 tIn.shape[i].base # "undefined"
                     => (tIn.shape[i].key \in Range(tOut.required)
                            <=> Unwrapped(tIn.shape[i]))
           /\ tIn = ExampleSchema
                 => /\ tOut.required = <<"a">>
                    /\ tOut.properties = << [key |-> "a", type |-> "string"],
                                            [key |-> "b", type |-> "number"],
                                            [key |-> "c", type |-> "boolean"] >>

\* C16: zodToJsonSchema returns a description for every input and never
\* throws: the translated description for an object schema, the permissive
\* fallback for every other input, a value without `_def` included.
C16_TranslatorNeverThrows ==
    tOut.type # "none"
        => /\ tOut.type = "object"
           /\ tIn.typeName = "ZodObject" => tOut.additionalProperties = FALSE
           /\ tIn.typeName # "ZodObject" => tOut = Fallback

-----------------------------------------------------------------------------
(* Runs of the asset route on its own, checked under SpecAssets *)

InitAssets ==
    /\ config = OneWidget
    /\ phase = "listening"
    /\ sessions = {}
    /\ sess = [s \in SessionIds |-> NoSession]
    /\ nextId = 0
    /\ pending = {}
    /\ handlerCalls = 0
    /\ lastEvent = [type |-> "none"]
    /\ tIn = [typeName |-> "ZodObject", shape |-> <<>>]
    /\ tOut = [type |-> "none"]
    /\ aReq \in [method : {"GET", "OPTIONS"}, rest : {<<>>}]
    /\ aResp = NoResponse

\* The client writes one more atom of the request URL.
AppendAtom(sep, atom) ==
    /\ aResp = NoResponse
    /\ Len(aReq.rest) < MaxAtoms
    /\ aReq.rest = <<>> => sep = "/"
    /\ aReq' = [aReq EXCEPT !.rest = Append(@, [sep |-> sep, atom |-> atom])]
    /\ UNCHANGED <<aResp, serverVars, translatorVars>>

\* The request arrives and the listener answers it.
HandleAssetRequest(statThrows) ==
    /\ phase = "listening"
    /\ aResp = NoResponse
    /\ aResp' = AssetResponse(aReq, statThrows)
    /\ UNCHANGED <<aReq, serverVars, translatorVars>>

NextAssets ==
    \/ \E sep \in Separators, atom \in Atoms : AppendAtom(sep, atom)
    \/ \E statThrows \in BOOLEAN : HandleAssetRequest(statThrows)

SpecAssets == InitAssets /\ [][NextAssets]_vars

\* Where the request's path leads once decoded and resolved.
Target(req) == resolve(assetsDir, relativePath(pathname(req)))

InsideBase(path) == Len(path) >= 2 /\ path[1] = "app" /\ path[2] = "assets"

Resolves(req) ==
    /\ IsAssetPath(pathname(req))
    /\ ~DecodeThrows(Flatten(SubSeq(pathname(req), 2, Len(pathname(req)))))
    /\ relativePath(pathname(req)) # <<"">>

\* C7: an answered /assets/ request whose decoded, resolved path is outside
\* the base directory gets 404 and no file content; a 200 is only given with
\* the content of the resolved path, which is inside the base directory.
C7_NoTraversal ==
    aResp.status > 0
        => /\ (Resolves(aReq) /\ ~InsideBase(Target(aReq)))
                  => (aResp.status = 404 /\ aResp.body # "file")
           /\ aResp.status = 200
                  => /\ Resolves(aReq)
                     /\ aResp.file = Target(aReq)
                     /\ InsideBase(aResp.file)
           /\ aResp.body = "file" => aResp.status = 200

\* C7 witness: a GET whose path uses dot-dot atoms to reach a file that
\* exists outside the base directory was answered 404.
C7_Witness ==
    /\ aReq.method = "GET"
    /\ aResp.status = 404
    /\ Resolves(aReq)
    /\ Target(aReq) \in Files
    /\ ~InsideBase(Target(aReq))
    /\ \E i \in DOMAIN aReq.rest : aReq.rest[i].atom \in {"..", "%2e%2e"}

\* C14: every answered OPTIONS request under /assets/ gets 204 and no body,
\* whether its relative path names a file, a directory or nothing.  Stated
\* for paths that decode to a non-empty relative path.
C14_OptionsAlways204 ==
    (/\ aResp # NoResponse
     /\ aReq.method = "OPTIONS"
     /\ Resolves(aReq))
        => (aResp.status = 204 /\ aResp.body = "none")

\* C15: no request under /assets/ escapes the listener as an exception: each
\* one is answered, with 500 when something threw, 404 when the path is
\* rejected, or the normal 200 / 204.
C15_AssetErrorsCaught ==
    (aResp # NoResponse /\ IsAssetPath(pathname(aReq)))
        => (aResp # Threw /\ aResp.status \in {200, 204, 404, 500})

-----------------------------------------------------------------------------
(* Runs of the constructor on its own, checked under SpecCompiler:
   definition lists that set or leave out htmlSrc, cssSrc and rootElement *)

InitCompiler ==
    /\ config \in CompilerConfigs
    /\ phase = "new"
    /\ sessions = {}
    /\ sess = [s \in SessionIds |-> NoSession]
    /\ nextId = 0
    /\ pending = {}
    /\ handlerCalls = 0
    /\ lastEvent = [type |-> "none"]
    /\ tIn = [typeName |-> "ZodObject", shape |-> <<>>]
    /\ tOut = [type |-> "none"]
    /\ aReq = [method |-> "GET", rest |-> <<>>]
    /\ aResp = NoResponse

NextCompiler ==
    \/ Construct
    \/ Return

SpecCompiler == InitCompiler /\ [][NextCompiler]_vars

\* The text the framework derives from a component name for a field the
\* definition leaves out.
DefaultSource(component, suffix) ==
    <<"http://localhost:4444", "/", component, "-", "hash", suffix>>

\* C27: after the constructor, for every definition, the compiled
\* definition has rootElement component + "-root", htmlSrc
\* frontendUrl/component-assetHash.js and cssSrc
\* frontendUrl/component-assetHash.css exactly for the fields the definition
\* leaves out, and the definition's own value for each field it sets; the
\* markup is the container with the rootElement id, then the stylesheet link
\* only if cssSrc is present (and always when it is a non-empty text), then
\* the module script for htmlSrc, in that order.
C27_CompiledDefaultsAndMarkup ==
    (lastEvent.type = "construct" /\ phase = "constructed")
        => /\ Len(lastEvent.widgetMetas) = Len(config)
           /\ \A i \in DOMAIN config :
                LET given == config[i]
                    compiled == lastEvent.widgetMetas[i].definition
                    html == lastEvent.widgetMetas[i].html
                    script == [tag |-> "script", ref |-> compiled.htmlSrc]
                    div == [tag |-> "div", ref |-> compiled.rootElement]
                    link == [tag |-> "link", ref |-> compiled.cssSrc]
                IN  /\ compiled.rootElement =
                        IF given.rootElement = <<>>
                        THEN <<given.component, "-root">> ELSE given.rootElement
                    /\ compiled.htmlSrc =
                        IF given.htmlSrc = <<>>
                        THEN DefaultSource(given.component, ".js")
                        ELSE given.htmlSrc
                    /\ compiled.cssSrc =
                        IF given.cssSrc = <<>>
                        THEN DefaultSource(given.component, ".css")
                        ELSE given.cssSrc
                    /\ html \in {<<div, link, script>>, <<div, script>>}
                    /\ compiled.cssSrc # <<"">> => html = <<div, link, script>>
                    /\ compiled.cssSrc = <<"">> => html = <<div, script>>

\* C27 witness: the constructor returned for two definitions, the first
\* leaving all three fields out, the second setting all three.
C27_Witness ==
    /\ lastEvent.type = "construct"
    /\ phase = "constructed"
    /\ Len(config) = 2
    /\ config[1].htmlSrc = <<>> /\ config[1].cssSrc = <<>>
    /\ config[1].rootElement = <<>>
    /\ config[2].htmlSrc # <<>> /\ config[2].cssSrc = <<"https://cdn.example/w.css">>
    /\ config[2].rootElement = <<"app">>
    /\ Len(lastEvent.widgetMetas[1].html) = 3
    /\ lastEvent.widgetMetas[2].html[2].ref = <<"https://cdn.example/w.css">>

=============================================================================
